---- MODULE Spec2Model ----
(***************************************************************************)
(* Model of src/manson.py: the HCS session object, its serial transport,   *)
(* the attached power supply and the line-oriented transaction engine.     *)
(*                                                                         *)
(* Bytes are one-character strings, byte strings and text are sequences    *)
(* of them.  Times are in milliseconds.                                    *)
(***************************************************************************)
EXTENDS Integers, Sequences, FiniteSets, TLC

(* ------------------------------------------------------------------ *)
(* Bounds of the model                                                 *)
(* ------------------------------------------------------------------ *)

\* most bytes of earlier replies that may still be unread or in flight
\* when the caller starts the next public call
MaxBacklog == 0

\* a line of a reply arrives whole, or in two bursts of which the first
\* carries at most this many bytes
MaxPartial == 1

\* watch: the lines after which the caller must interrupt the loop
MaxTicks == 2

\* most bytes of earlier replies unread or in flight when a caller who
\* does not wait for a quiet line starts the next call
LateBacklog == 5

(* ------------------------------------------------------------------ *)
(* Bytes, text, Python values                                          *)
(* ------------------------------------------------------------------ *)

CR == "\r"
SP == " "
\* one byte outside the ASCII range (0xff)
XFF == "0xFF"

Digits == {"0", "1", "2", "3", "4", "5", "6", "7", "8", "9"}

DigitVal(c) ==
    CASE c = "0" -> 0 [] c = "1" -> 1 [] c = "2" -> 2 [] c = "3" -> 3
      [] c = "4" -> 4 [] c = "5" -> 5 [] c = "6" -> 6 [] c = "7" -> 7
      [] c = "8" -> 8 [] c = "9" -> 9

DigitChar(d) ==
    CASE d = 0 -> "0" [] d = 1 -> "1" [] d = 2 -> "2" [] d = 3 -> "3"
      [] d = 4 -> "4" [] d = 5 -> "5" [] d = 6 -> "6" [] d = 7 -> "7"
      [] d = 8 -> "8" [] d = 9 -> "9"

Last(s) == s[Len(s)]

\* Python values that the session stores or returns: None, True, False,
\* a str (s), or a tuple of numbers (q, each number <<numerator, divisor>>)
PyNone == [t |-> "None", s |-> <<>>, q |-> <<>>]
PyTrue == [t |-> "True", s |-> <<>>, q |-> <<>>]
PyFalse == [t |-> "False", s |-> <<>>, q |-> <<>>]
PyStr(s) == [t |-> "str", s |-> s, q |-> <<>>]
PyNums(q) == [t |-> "nums", s |-> <<>>, q |-> q]

\* Python truth value of v ("if not self._model")
Truthy(v) ==
    \/ v.t = "True"
    \/ v.t = "str" /\ v.s # <<>>
    \/ v.t = "nums" /\ v.q # <<>>

\* bytes.rstrip(): drop trailing ASCII whitespace
Whitespace == {SP, CR, "\n", "\t"}

RECURSIVE rstrip(_)
rstrip(b) ==
    IF b # <<>> /\ Last(b) \in Whitespace
    THEN rstrip(SubSeq(b, 1, Len(b) - 1))
    ELSE b

\* bytes.decode('ascii') succeeds
IsAscii(b) == \A i \in 1..Len(b) : b[i] # XFF

\* int() of a string of decimal digits
RECURSIVE int(_)
int(s) == IF s = <<>> THEN 0 ELSE 10 * int(SubSeq(s, 1, Len(s) - 1)) + DigitVal(Last(s))

AllDigits(s) == \A i \in 1..Len(s) : s[i] \in Digits

(* ------------------------------------------------------------------ *)
(* Text constants of the driver and of the protocol                    *)
(* ------------------------------------------------------------------ *)

\* the affirmative token
OK == <<"O", "K">>

HCS_3102 == <<"H", "C", "S", "-", "3", "1", "0", "2">>
HCS_3014 == <<"H", "C", "S", "-", "3", "0", "1", "4">>
HCS_3204 == <<"H", "C", "S", "-", "3", "2", "0", "4">>
REV3_3 == <<"R", "E", "V", "3", ".", "3">>
\* an earlier firmware revision
REV3_2 == <<"R", "E", "V", "3", ".", "2">>

\* connect: the models the driver accepts
SupportedModels == {HCS_3102, HCS_3014, HCS_3204}

\* connect: the one firmware revision the driver accepts
SupportedVersion == REV3_3

\* get_error_state: texts of the status table
over_voltage == <<"o", "v", "e", "r", " ", "v", "o", "l", "t", "a", "g", "e">>
over_temperature == <<"o", "v", "e", "r", " ", "t", "e", "m", "p", "e", "r", "a", "t", "u", "r", "e">>
overload == <<"o", "v", "e", "r", "l", "o", "a", "d">>

\* get_display_voltage_current_and_mode: ['CV', 'CC']
ModeNames == <<<<"C", "V">>, <<"C", "C">>>>

\* serial.Serial(..., timeout=0.1, inter_byte_timeout=0.002), in ms
BaseTimeout == 100
ShortInterByte == 2
\* _do_transaction: inter_byte_timeout while waiting for the first line
LongInterByte == 100
\* get_preset_memories / set_preset_memories: widened timeout
PresetTimeout == 500

(* ------------------------------------------------------------------ *)
(* Pure functions of the driver                                        *)
(* ------------------------------------------------------------------ *)

\* str() of a Python int
RECURSIVE NatStr(_)
NatStr(n) == IF n < 10 THEN <<DigitChar(n)>> ELSE NatStr(n \div 10) \o <<DigitChar(n % 10)>>

str(n) == IF n < 0 THEN <<"-">> \o NatStr(-n) ELSE NatStr(n)

\* the format spec '0>#3': right-align in 3 columns, fill with '0'; the text
\* (sign included) is never cut
RECURSIVE Fill0Right3(_)
Fill0Right3(s) == IF Len(s) >= 3 THEN s ELSE Fill0Right3(<<"0">> \o s)

\* Python numbers a caller passes: an int, or the float (binary64) nearest
\* to the decimal n/d, d a power of ten
PyInt(n) == [t |-> "int", n |-> n, d |-> 1]
PyFloat(n, d) == [t |-> "float", n |-> n, d |-> d]

\* Naturals beyond the machine word: their digits in base Limb, most
\* significant first
Limb == 32768
LimbBits == 15

RECURSIVE Big(_)
Big(n) == IF n = 0 THEN <<>> ELSE Append(Big(n \div Limb), n % Limb)

RECURSIVE Small(_)
Small(x) == IF x = <<>> THEN 0 ELSE Limb * Small(SubSeq(x, 1, Len(x) - 1)) + Last(x)

\* x without its leading zero digits
Strip(x) ==
    IF \A i \in 1..Len(x) : x[i] = 0 THEN <<>>
    ELSE SubSeq(x, CHOOSE i \in 1..Len(x) : x[i] # 0 /\ \A j \in 1..(i - 1) : x[j] = 0,
                Len(x))

\* x * c + carry, for c and carry below Limb
RECURSIVE MulAdd(_, _, _)
MulAdd(x, c, carry) ==
    IF x = <<>> THEN Big(carry)
    ELSE LET t == Last(x) * c + carry
         IN Append(MulAdd(SubSeq(x, 1, Len(x) - 1), c, t \div Limb), t % Limb)

\* quotient (as many digits as x) and remainder of x by d, for d below Limb
RECURSIVE DivRem(_, _)
DivRem(x, d) ==
    IF x = <<>> THEN [q |-> <<>>, r |-> 0]
    ELSE LET p == DivRem(SubSeq(x, 1, Len(x) - 1), d)
             t == Limb * p.r + Last(x)
         IN [q |-> Append(p.q, t \div d), r |-> t % d]

\* x * 2^k
Shl(x, k) == MulAdd(x \o [i \in 1..(k \div LimbBits) |-> 0], 2 ^ (k % LimbBits), 0)

\* x \div 2^k, and whether bits were lost
Shr(x, k) ==
    LET n == Len(x) - (k \div LimbBits)
        p == DivRem(SubSeq(x, 1, n), 2 ^ (k % LimbBits))
    IN [q |-> Strip(p.q),
        lost |-> p.r # 0 \/ \E i \in (n + 1)..Len(x) : i >= 1 /\ x[i] # 0]

\* the number of bits of x
BitLen(x) ==
    LET y == Strip(x)
    IN IF y = <<>> THEN 0
       ELSE LimbBits * (Len(y) - 1)
              + CHOOSE j \in 1..LimbBits : 2 ^ (j - 1) <= y[1] /\ y[1] < 2 ^ j

\* binary64: 53 bits of significand, round to nearest, ties to even
Precision == 53

\* x * 2^e (below: a nonzero fraction lies under x) as a float: the pair
\* m, e of the value m * 2^e, m of at most Precision bits
Round(x, below, e) ==
    IF BitLen(x) <= Precision THEN [m |-> Strip(x), e |-> e]
    ELSE LET s == BitLen(x) - Precision
             g == Shr(x, s - 1)
             kept == Shr(g.q, 1)
             sticky == below \/ g.lost
             up == kept.lost /\ (sticky \/ Last(kept.q) % 2 = 1)
         IN [m |-> IF up THEN MulAdd(kept.q, 1, 1) ELSE kept.q, e |-> e + s]

\* the quotient n / d is formed to this many binary places before rounding
FloatShift == 75

\* the float nearest to n / d, for naturals n and d > 0
float(n, d) ==
    LET p == DivRem(Shl(Big(n), FloatShift), d)
    IN Round(p.q, p.r # 0, -FloatShift)

\* float * int, for a float x >= 0 and a small natural c
fmul(x, c) == Round(MulAdd(x.m, c, 0), FALSE, x.e)

\* int() of a float x >= 0: the fraction is cut off
int_of_float(x) ==
    IF x.e >= 0 THEN Small(Shl(x.m, x.e)) ELSE Small(Shr(x.m, -x.e).q)

\* int(num * scale): exact for an int; for a float the binary64 product,
\* cut off towards zero
int_of_product(num, scale) ==
    IF num.t = "int" THEN num.n * scale
    ELSE IF num.n < 0 THEN -int_of_float(fmul(float(-num.n, num.d), scale))
    ELSE int_of_float(fmul(float(num.n, num.d), scale))

\* _fp_3string(num, scale)
_fp_3string(num, scale) == Fill0Right3(str(int_of_product(num, scale)))

\* what a call or a transaction yields: a returned value, or a raised
\* exception (err) with the lines and the value its message names
Return(v) == [kind |-> "return", err |-> "", lines |-> <<>>, val |-> v]
Raise(e, lines, v) == [kind |-> "raise", err |-> e, lines |-> lines, val |-> v]
NoOutcome == [kind |-> "none", err |-> "", lines |-> <<>>, val |-> PyNone]

\* the validation without the check of the last line
ValidateResponseAnyLastLine(response) ==
    IF Len(response) \notin {1, 2}
    THEN Raise("bad response", response, PyNone)
    ELSE IF response = <<OK>> THEN Return(PyTrue) ELSE Return(PyStr(response[1]))

\* the validation taking a first line OK for the no-data reply
ValidateResponseFirstLineOK(response) ==
    IF Len(response) \notin {1, 2} \/ Last(response) # OK
    THEN Raise("bad response", response, PyNone)
    ELSE IF response[1] = OK THEN Return(PyTrue) ELSE Return(PyStr(response[1]))

\* _do_transaction, lines 72-78: validation of the collected lines
ValidateResponse(response) ==
    IF Len(response) \notin {1, 2} \/ Last(response) # OK
    THEN Raise("bad response", response, PyNone)
    ELSE IF response = <<OK>> THEN Return(PyTrue) ELSE Return(PyStr(response[1]))

\* the terminator check left out
IncompleteIgnored(data_read) == FALSE

\* _do_transaction, line 68: the line read lacks the terminator
Incomplete(data_read) == data_read[Len(data_read)] # CR

\* the wrapper testing the truth value of the response ("if not response")
NoResponseByTruthValue(r) ==
    IF r.kind = "raise" THEN r
    ELSE IF ~Truthy(r.val) THEN Raise("unexpected data", <<>>, r.val)
    ELSE Return(PyNone)

\* _do_transaction_no_response applied to what _do_transaction yields
_do_transaction_no_response(r) ==
    IF r.kind = "raise" THEN r
    ELSE IF r.val # PyTrue THEN Raise("unexpected data", <<>>, r.val)
    ELSE Return(PyNone)

\* a regex of the driver: its groups in order, each a width and the
\* characters it admits, e.g. (\d{3})(\d{3})
Group(n, cls) == [n |-> n, cls |-> cls]
Regex33 == <<Group(3, Digits), Group(3, Digits)>>
Regex441 == <<Group(4, Digits), Group(4, Digits), Group(1, {"0", "1"})>>
Regex333333 == <<Group(3, Digits), Group(3, Digits), Group(3, Digits),
                 Group(3, Digits), Group(3, Digits), Group(3, Digits)>>
Regex3 == <<Group(3, Digits)>>

RECURSIVE RegexLen(_)
RegexLen(regex) == IF regex = <<>> THEN 0 ELSE regex[1].n + RegexLen(Tail(regex))

\* re.fullmatch(regex, s) for a str s: the groups' texts, or <<>> (no match)
RECURSIVE Groups(_, _)
Groups(regex, s) ==
    IF regex = <<>> THEN <<>>
    ELSE <<SubSeq(s, 1, regex[1].n)>> \o Groups(Tail(regex), SubSeq(s, regex[1].n + 1, Len(s)))

fullmatch(regex, s) ==
    IF Len(s) = RegexLen(regex)
       /\ LET g == Groups(regex, s)
          IN \A i \in 1..Len(regex) : \A j \in 1..Len(g[i]) : g[i][j] \in regex[i].cls
    THEN Groups(regex, s)
    ELSE <<>>

\* _do_transaction_get_with_regex applied to what _do_transaction yields:
\* the groups cast to int (each as <<value, 1>>)
_do_transaction_get_with_regex(r, regex) ==
    IF r.kind = "raise" THEN r
    ELSE IF r.val.t # "str" THEN Raise("TypeError", <<>>, r.val)
    ELSE LET match == fullmatch(regex, r.val.s)
         IN IF match = <<>> THEN Raise("unexpected response", <<>>, r.val)
            ELSE Return(PyNums([i \in 1..Len(match) |-> <<int(match[i]), 1>>]))

\* _do_transaction_get_with_dict applied to what _do_transaction yields;
\* responses is a set of [k |-> key text, v |-> value]
_do_transaction_get_with_dict(r, responses) ==
    IF r.kind = "raise" THEN r
    ELSE IF r.val.t = "str" /\ \E e \in responses : e.k = r.val.s
         THEN Return((CHOOSE e \in responses : e.k = r.val.s).v)
         ELSE Raise("unexpected response", <<>>, r.val)

\* get_error_state: the status table
ErrorStates ==
    { [k |-> <<"0", "0", "0">>, v |-> PyFalse],
      [k |-> <<"0", "0", "1">>, v |-> PyStr(over_voltage)],
      [k |-> <<"0", "0", "2">>, v |-> PyStr(over_temperature)],
      [k |-> <<"0", "0", "3">>, v |-> PyStr(overload)] }

\* get_output_power_enabled: the flag is "output power suppressed"
OutputStates ==
    { [k |-> <<"0">>, v |-> PyTrue],
      [k |-> <<"1">>, v |-> PyFalse] }

\* the flag sent in the sense of "enabled"
SuppressFlagNotInverted(enabled) == IF enabled THEN <<"1">> ELSE <<"0">>

\* set_output_power_enabled / set_target_voltage_current_and_output_enabled:
\* 0 if enabled else 1
SuppressFlag(enabled) == IF enabled THEN <<"0">> ELSE <<"1">>

(* ------------------------------------------------------------------ *)
(* The attached device and the serial line                             *)
(* ------------------------------------------------------------------ *)

Line(text) == text \o <<CR>>

\* the power supplies a port may lead to: what each reports as its model
\* and version (one reports an empty model line)
Devices ==
    { [model |-> HCS_3102, version |-> REV3_3],
      [model |-> HCS_3014, version |-> REV3_2],
      [model |-> <<>>, version |-> REV3_3] }

NoDevice == [model |-> <<>>, version |-> <<>>]

GetVerbs == {"GMOD", "GVER", "GERR", "GMAX", "GETS", "GETD", "GETM", "GOUT", "GOVP", "GOCP"}
SetVerbs == {"VOLT", "CURR", "SEVC", "PROM", "RUNM", "SESS", "ENDS", "SOUT", "SOVP", "SOCP"}

\* the payload a device in order sends for a get verb (d: the device,
\* flag: its stored suppress flag)
Payload(verb, d, flag) ==
    CASE verb = "GMOD" -> d.model
      [] verb = "GVER" -> d.version
      [] verb = "GERR" -> <<"0", "0", "3">>
      [] verb = "GMAX" -> <<"1", "2", "0", "2", "4", "0">>
      [] verb = "GETS" -> <<"0", "5", "0", "1", "0", "0">>
      [] verb = "GETD" -> <<"0", "4", "9", "9", "0", "1", "0", "0", "1">>
      [] verb = "GETM" -> <<"0", "5", "0", "1", "0", "0", "1", "2", "0", "2", "0", "0",
                            "1", "5", "0", "2", "4", "0">>
      [] verb = "GOUT" -> flag
      [] verb = "GOVP" -> <<"1", "5", "0">>
      [] verb = "GOCP" -> <<"2", "5", "0">>

\* the reply of a device in order: the payload line (get verbs only), then OK
GoodReply(verb, d, flag) ==
    IF verb \in GetVerbs THEN Line(Payload(verb, d, flag)) \o Line(OK) ELSE Line(OK)

\* replies of a device out of order (it always answers GMOD and GVER in
\* order): to another get verb no payload, one of 5
\* digits followed by a blank, or two payload lines; to a set verb a payload
\* line (the text OK), a byte that is not ASCII, or OK followed by a blank
\* (which the driver strips)
FaultyReplies(verb) ==
    CASE verb \in {"GMOD", "GVER"} -> {}
      [] verb \in GetVerbs \ {"GMOD", "GVER"} ->
            { Line(OK),
              Line(<<"1", "2", "0", "2", "4", SP>>) \o Line(OK),
              Line(<<"0">>) \o Line(<<"0">>) \o Line(OK) }
      [] verb \in SetVerbs ->
            { Line(OK) \o Line(OK),
              Line(<<XFF>>) \o Line(OK),
              Line(OK \o <<SP>>) }

Replies(verb, d, flag) == {GoodReply(verb, d, flag)} \cup FaultyReplies(verb)

\* the suppress flag the device stores on receiving a command
StoredFlag(verb, extras, flag) ==
    IF verb \in {"SOUT", "SEVC"} /\ extras # <<>> /\ Last(extras) \in {"0", "1"}
    THEN <<Last(extras)>>
    ELSE flag

\* serial.read_until(b'\r') on the received bytes rx: through the first CR
\* if there is one, else (the timeout elapses) all there is
RECURSIVE FirstCR(_)
FirstCR(b) == IF b = <<>> THEN 0 ELSE IF b[1] = CR THEN 1 ELSE
                 LET k == FirstCR(Tail(b)) IN IF k = 0 THEN 0 ELSE k + 1

read_until(b) == IF FirstCR(b) = 0 THEN b ELSE SubSeq(b, 1, FirstCR(b))

Unread(b) == SubSeq(b, Len(read_until(b)) + 1, Len(b))

(* ------------------------------------------------------------------ *)
(* State                                                               *)
(* ------------------------------------------------------------------ *)

VARIABLES
    sp,                  \* self.sp: "None", or "open" (a serial.Serial)
    timeout,             \* self.sp.timeout, ms (0: no transport)
    inter_byte_timeout,  \* self.sp.inter_byte_timeout, ms (0: no transport)
    _model,              \* self._model
    _version,            \* self._version
    c_factor,            \* self.c_factor (0: the attribute is not set)
    dev,                 \* the device behind the open port
    flag,                \* the suppress flag the device stores
    pending,             \* reply bytes the device has not delivered yet
    rx,                  \* bytes received on the port and not read yet
    midline,             \* the last burst delivered ended inside a line
    pc,                  \* "idle", or where the running public call is
    op,                  \* the running (when idle: the last) public call
    line,                \* in connect / model / version: the call site
    cmd,                 \* _do_transaction: the command written
    response,            \* _do_transaction: response
    data_read,           \* _do_transaction: data_read
    result,              \* how the last public call ended
    queriedModel,        \* a GMOD transaction of model() has returned a value
    queriedVersion,      \* a GVER transaction of version() has returned a value
    clean,               \* the line was quiet when cmd was written
    written,             \* command lines the running (last) public call has written
    watched,             \* watch: its local variables
    stdout,              \* watch: the lines it has printed
    tick_reads           \* watch: the commands answered since the last printed line

vars == <<sp, timeout, inter_byte_timeout, _model, _version, c_factor, dev, flag,
          pending, rx, midline, pc, op, line, cmd, response, data_read, result,
          queriedModel, queriedVersion, clean, written, watched, stdout, tick_reads>>

session == <<sp, timeout, inter_byte_timeout, _model, _version, c_factor>>
device == <<dev, flag>>
wire == <<pending, rx, midline>>
transaction == <<cmd, response, data_read, clean, written>>
queried == <<queriedModel, queriedVersion>>
poll == <<watched, stdout, tick_reads>>

\* watch before line 47: no local is bound
NoLocals == [max |-> PyNone, target |-> PyNone, display |-> PyNone]

NoCmd == [verb |-> "", extras |-> <<>>]
Call(name, nums, enabled) == [name |-> name, nums |-> nums, enabled |-> enabled]

\* inputs of the public calls
Volts == {PyInt(12)}
Amps == {PyInt(2)}
Memories == {1}

\* __init__(port=None)
Init ==
    /\ sp = "None"
    /\ timeout = 0
    /\ inter_byte_timeout = 0
    /\ _model = PyNone
    /\ _version = PyNone
    /\ c_factor = 0
    /\ dev = NoDevice
    /\ flag = <<"0">>
    /\ pending = <<>>
    /\ rx = <<>>
    /\ midline = FALSE
    /\ pc = "idle"
    /\ op = Call("__init__", <<>>, FALSE)
    /\ line = ""
    /\ cmd = NoCmd
    /\ response = <<>>
    /\ data_read = <<>>
    /\ result = NoOutcome
    /\ queriedModel = FALSE
    /\ queriedVersion = FALSE
    /\ clean = TRUE
    /\ written = 0
    /\ watched = NoLocals
    /\ stdout = <<>>
    /\ tick_reads = {}

\* the caller may start a public call on the connected session
Callable ==
    /\ pc = "idle"
    /\ sp = "open"
    /\ Len(rx) + Len(pending) <= MaxBacklog

\* a public call starts: no transaction of it has run yet
NoTransaction ==
    /\ cmd' = NoCmd
    /\ response' = <<>>
    /\ data_read' = <<>>
    /\ clean' = TRUE
    /\ written' = 0

\* a public call that runs one transaction: cmd extras...
Invoke(call, verb, extras) ==
    /\ op' = call
    /\ line' = ""
    /\ cmd' = [verb |-> verb, extras |-> extras]
    /\ pc' = "write"
    /\ result' = NoOutcome
    /\ response' = <<>>
    /\ data_read' = <<>>
    /\ clean' = TRUE
    /\ written' = 0

\* a public call that ends (returns or raises) without a transaction
Finish(call, outcome) ==
    /\ op' = call
    /\ line' = ""
    /\ pc' = "idle"
    /\ result' = outcome
    /\ NoTransaction

\* reading self.c_factor when connect never got to set it
NoFactor == Raise("AttributeError", <<>>, PyNone)

(* ------------------------------------------------------------------ *)
(* What each public method makes of its transaction                    *)
(* ------------------------------------------------------------------ *)

\* both groups divided by the session's factor
VoltsAmpsBothByFactor(m, factor) ==
    IF m.kind = "raise" THEN m
    ELSE IF factor = 0 THEN NoFactor
    ELSE Return(PyNums(<< <<m.val.q[1][1], factor>>, <<m.val.q[2][1], factor>> >>))

\* v/10, c/self.c_factor of two matched groups
VoltsAmps(m, factor) ==
    IF m.kind = "raise" THEN m
    ELSE IF factor = 0 THEN NoFactor
    ELSE Return(PyNums(<< <<m.val.q[1][1], 10>>, <<m.val.q[2][1], factor>> >>))

get_error_state_value(r) == _do_transaction_get_with_dict(r, ErrorStates)

get_maximum_voltage_and_current_value(r, factor) ==
    VoltsAmps(_do_transaction_get_with_regex(r, Regex33), factor)

get_target_voltage_and_current_value(r, factor) ==
    VoltsAmps(_do_transaction_get_with_regex(r, Regex33), factor)

get_display_voltage_current_and_mode_value(r) ==
    LET m == _do_transaction_get_with_regex(r, Regex441)
    IN IF m.kind = "raise" THEN m
       ELSE Return([t |-> "display",
                    s |-> ModeNames[m.val.q[3][1] + 1],
                    q |-> << <<m.val.q[1][1], 100>>, <<m.val.q[2][1], 100>> >>])

get_preset_memories_value(r, factor) ==
    LET m == _do_transaction_get_with_regex(r, Regex333333)
    IN IF m.kind = "raise" THEN m
       ELSE IF factor = 0 THEN NoFactor
       ELSE Return(PyNums([i \in 1..6 |->
                <<m.val.q[i][1], IF i % 2 = 1 THEN 10 ELSE factor>>]))

get_output_power_enabled_value(r) == _do_transaction_get_with_dict(r, OutputStates)

get_over_voltage_limit_value(r) ==
    LET m == _do_transaction_get_with_regex(r, Regex3)
    IN IF m.kind = "raise" THEN m ELSE Return(PyNums(<< <<m.val.q[1][1], 10>> >>))

get_over_current_limit_value(r, factor) ==
    LET m == _do_transaction_get_with_regex(r, Regex3)
    IN IF m.kind = "raise" THEN m
       ELSE IF factor = 0 THEN NoFactor
       ELSE Return(PyNums(<< <<m.val.q[1][1], factor>> >>))

SetMethods ==
    {"set_target_voltage", "set_target_current",
     "set_target_voltage_current_and_output_enabled", "set_preset_memories",
     "run_preset_memory", "set_session_state", "set_output_power_enabled",
     "set_over_voltage_limit", "set_over_current_limit"}

RegexGetMethods ==
    {"get_maximum_voltage_and_current", "get_target_voltage_and_current",
     "get_display_voltage_current_and_mode", "get_preset_memories",
     "get_over_voltage_limit", "get_over_current_limit"}

DictGetMethods == {"get_error_state", "get_output_power_enabled"}

\* the methods that write the suppress flag
OutputSetters ==
    {"set_output_power_enabled", "set_target_voltage_current_and_output_enabled"}

\* the outcome of public method name, given what its _do_transaction yields
MethodOutcome(name, r, factor) ==
    CASE name \in {"get_model", "get_version"} -> r
      [] name = "get_error_state" -> get_error_state_value(r)
      [] name = "get_maximum_voltage_and_current" ->
            get_maximum_voltage_and_current_value(r, factor)
      [] name = "get_target_voltage_and_current" ->
            get_target_voltage_and_current_value(r, factor)
      [] name = "get_display_voltage_current_and_mode" ->
            get_display_voltage_current_and_mode_value(r)
      [] name = "get_preset_memories" -> get_preset_memories_value(r, factor)
      [] name = "get_output_power_enabled" -> get_output_power_enabled_value(r)
      [] name = "get_over_voltage_limit" -> get_over_voltage_limit_value(r)
      [] name = "get_over_current_limit" -> get_over_current_limit_value(r, factor)
      [] name \in SetMethods -> _do_transaction_no_response(r)

\* get_preset_memories line 145 / set_preset_memories line 155 is reached:
\* the statement before it did not raise
PresetRestoreReached(name, r) ==
    \/ name = "get_preset_memories"
         /\ _do_transaction_get_with_regex(r, Regex333333).kind = "return"
    \/ name = "set_preset_memories"
         /\ _do_transaction_no_response(r).kind = "return"

\* self.sp.timeout when public method name is left, its transaction
\* having yielded r
TimeoutAfter(name, r, before) ==
    IF PresetRestoreReached(name, r) THEN BaseTimeout ELSE before

(* ------------------------------------------------------------------ *)
(* connect, disconnect, model, version                                 *)
(* ------------------------------------------------------------------ *)

\* call sites of self.model() and self.version(): the public call itself,
\* or a line of connect
ModelSites == {"model", "26:model", "27:model", "29:model"}
VersionSites == {"version", "26:version", "27:version"}

Supported(v) == v.t = "str" /\ v.s \in SupportedModels
VersionOK(v) == v = PyStr(SupportedVersion)

\* connect, lines 23-25: open the port (a device d answers behind it),
\* drop buffered bytes; next is self.model() of line 26
connect ==
    /\ pc = "idle"
    /\ \E d \in Devices, f \in {"0", "1"} :
          /\ dev' = d
          /\ flag' = <<f>>
    /\ sp' = "open"
    /\ timeout' = BaseTimeout
    /\ inter_byte_timeout' = ShortInterByte
    /\ rx' = <<>>
    /\ pending' = <<>>
    /\ midline' = FALSE
    /\ op' = Call("connect", <<>>, FALSE)
    /\ line' = "26:model"
    /\ pc' = "call"
    /\ result' = NoOutcome
    /\ NoTransaction
    /\ UNCHANGED <<_model, _version, c_factor, queried, poll>>

\* disconnect, lines 33-34
disconnect ==
    /\ pc = "idle"
    /\ sp = "open"
    /\ sp' = "None"
    /\ timeout' = 0
    /\ inter_byte_timeout' = 0
    /\ dev' = NoDevice
    /\ flag' = <<"0">>
    /\ rx' = <<>>
    /\ pending' = <<>>
    /\ midline' = FALSE
    /\ Finish(Call("disconnect", <<>>, FALSE), Return(PyNone))
    /\ UNCHANGED <<_model, _version, c_factor, queried, poll>>

\* the caller calls model() / version()
call_model ==
    /\ pc = "idle"
    /\ sp = "open" \/ Truthy(_model)
    /\ Len(rx) + Len(pending) <= MaxBacklog
    /\ op' = Call("model", <<>>, FALSE)
    /\ line' = "model"
    /\ pc' = "call"
    /\ result' = NoOutcome
    /\ NoTransaction
    /\ UNCHANGED <<session, device, wire, queried, poll>>

call_version ==
    /\ pc = "idle"
    /\ sp = "open" \/ Truthy(_version)
    /\ Len(rx) + Len(pending) <= MaxBacklog
    /\ op' = Call("version", <<>>, FALSE)
    /\ line' = "version"
    /\ pc' = "call"
    /\ result' = NoOutcome
    /\ NoTransaction
    /\ UNCHANGED <<session, device, wire, queried, poll>>

\* model() / version() has yielded v at call site line: what connect
\* (lines 26-30) or the public call does next
Then(v) ==
    CASE line \in {"model", "version"} ->
            /\ pc' = "idle"
            /\ line' = line
            /\ result' = Return(v)
            /\ c_factor' = c_factor
      [] line = "26:model" ->
            /\ pc' = "call"
            /\ line' = IF Supported(v) THEN "26:version" ELSE "27:model"
            /\ UNCHANGED <<result, c_factor>>
      [] line = "26:version" ->
            /\ pc' = "call"
            /\ line' = IF VersionOK(v) THEN "29:model" ELSE "27:model"
            /\ UNCHANGED <<result, c_factor>>
      [] line = "27:model" ->
            /\ pc' = "call"
            /\ line' = "27:version"
            /\ UNCHANGED <<result, c_factor>>
      [] line = "27:version" ->
            /\ pc' = "idle"
            /\ line' = line
            /\ result' = Raise("unsupported", <<>>, PyNone)
            /\ c_factor' = c_factor
      [] line = "29:model" ->
            /\ pc' = "idle"
            /\ line' = line
            /\ result' = Return(PyNone)
            /\ c_factor' = IF Supported(v) THEN 100 ELSE 10

\* model(), lines 37-39: the memo if it is truthy, else get_model()
IsMemoized(v) == Truthy(v)

model ==
    /\ pc = "call"
    /\ line \in ModelSites
    /\ IF IsMemoized(_model)
       THEN /\ Then(_model)
            /\ UNCHANGED cmd
       ELSE /\ pc' = "write"
            /\ cmd' = [verb |-> "GMOD", extras |-> <<>>]
            /\ UNCHANGED <<line, result, c_factor>>
    /\ UNCHANGED <<sp, timeout, inter_byte_timeout, _model, _version, device, wire,
                   op, response, data_read, clean, queried, written, poll>>

\* version(), lines 42-44
version ==
    /\ pc = "call"
    /\ line \in VersionSites
    /\ IF IsMemoized(_version)
       THEN /\ Then(_version)
            /\ UNCHANGED cmd
       ELSE /\ pc' = "write"
            /\ cmd' = [verb |-> "GVER", extras |-> <<>>]
            /\ UNCHANGED <<line, result, c_factor>>
    /\ UNCHANGED <<sp, timeout, inter_byte_timeout, _model, _version, device, wire,
                   op, response, data_read, clean, queried, written, poll>>

(* ------------------------------------------------------------------ *)
(* watch                                                               *)
(* ------------------------------------------------------------------ *)

\* the lines of watch that call a get method, the method each calls, the
\* command that method writes and the locals its result is bound to
WatchSites == {"47", "50", "51"}

WatchMethod(site) ==
    CASE site = "47" -> "get_maximum_voltage_and_current"
      [] site = "50" -> "get_target_voltage_and_current"
      [] site = "51" -> "get_display_voltage_current_and_mode"

WatchVerb(site) ==
    CASE site = "47" -> "GMAX" [] site = "50" -> "GETS" [] site = "51" -> "GETD"

\* watch, after the call of line site has returned v: the locals
Bound(site, v) ==
    CASE site = "47" -> [watched EXCEPT !.max = v]
      [] site = "50" -> [watched EXCEPT !.target = v]
      [] site = "51" -> [watched EXCEPT !.display = v]

\* ... and the line of watch that runs next: line 50 after line 47 (the
\* loop is entered), line 51 after line 50, the print of line 52 after 51
After(site) == CASE site = "47" -> "50" [] site = "50" -> "51" [] site = "51" -> "52"

\* print(''): what the handler of line 58 prints
BlankLine == [max |-> PyStr(<<>>), target |-> PyStr(<<>>), display |-> PyStr(<<>>)]

\* watch(delay), line 47 up to the write of GMAX
watch ==
    /\ Callable
    /\ op' = Call("watch", <<>>, FALSE)
    /\ line' = "47"
    /\ cmd' = [verb |-> WatchVerb("47"), extras |-> <<>>]
    /\ pc' = "write"
    /\ result' = NoOutcome
    /\ response' = <<>>
    /\ data_read' = <<>>
    /\ clean' = TRUE
    /\ written' = 0
    /\ watched' = NoLocals
    /\ stdout' = <<>>
    /\ tick_reads' = {}
    /\ UNCHANGED <<session, device, wire, queried>>

\* lines 52-55: the line of this tick is printed
watch_print ==
    /\ pc = "print"
    /\ stdout' = Append(stdout, watched)
    /\ tick_reads' = {}
    /\ pc' = "sleep"
    /\ line' = "56"
    /\ UNCHANGED <<session, device, wire, op, transaction, result, queried, watched>>

\* the loop turning to line 51: the target values are not read again
watch_sleep_to_display ==
    /\ pc = "sleep"
    /\ Len(stdout) < MaxTicks
    /\ pc' = "write"
    /\ line' = "51"
    /\ cmd' = [verb |-> WatchVerb("51"), extras |-> <<>>]
    /\ UNCHANGED <<session, device, wire, op, response, data_read, clean, written,
                   result, queried, poll>>

\* line 56 is over: the loop turns, line 50 up to the write of GETS
watch_sleep ==
    /\ pc = "sleep"
    /\ Len(stdout) < MaxTicks
    /\ pc' = "write"
    /\ line' = "50"
    /\ cmd' = [verb |-> WatchVerb("50"), extras |-> <<>>]
    /\ UNCHANGED <<session, device, wire, op, response, data_read, clean, written,
                   result, queried, poll>>

\* the interrupt signal arrives while watch runs: Python raises
\* KeyboardInterrupt in the statement that is running, whichever it is.
\* Inside the try (lines 49-56) the handler of lines 57-58 prints an empty
\* line and watch returns; at line 47 the exception leaves watch
KeyboardInterrupt ==
    /\ op.name = "watch"
    /\ pc # "idle"
    /\ pc' = "idle"
    /\ IF line = "47"
       THEN /\ result' = Raise("KeyboardInterrupt", <<>>, PyNone)
            /\ stdout' = stdout
       ELSE /\ result' = Return(PyNone)
            /\ stdout' = Append(stdout, BlankLine)
    /\ UNCHANGED <<session, device, wire, op, line, transaction, queried, watched,
                   tick_reads>>

(* ------------------------------------------------------------------ *)
(* _do_transaction                                                     *)
(* ------------------------------------------------------------------ *)

\* lines 61-63: write the command line (the device receives it, stores a
\* suppress flag it carries, and queues its reply), response = [], long
\* inter-byte timeout
_do_transaction_write ==
    /\ pc = "write"
    /\ LET f == StoredFlag(cmd.verb, cmd.extras, flag)
       IN /\ flag' = f
          /\ \E reply \in Replies(cmd.verb, dev, f) : pending' = pending \o reply
    /\ response' = <<>>
    /\ data_read' = <<>>
    /\ inter_byte_timeout' = LongInterByte
    /\ clean' = (rx = <<>> /\ pending = <<>>)
    /\ written' = written + 1
    /\ pc' = "read"
    /\ UNCHANGED <<sp, timeout, _model, _version, c_factor, dev, rx, midline, op, line,
                   cmd, result, queried, poll>>

\* the sizes of the burst that may arrive next: the rest of the line in
\* flight, or (at the start of a line) a first part of it
Bursts(b, inside) ==
    {FirstCR(b)} \cup
        IF inside THEN {} ELSE {k \in 1..MaxPartial : k < FirstCR(b)}

\* the next burst of the device's replies arrives
Deliver ==
    /\ pending # <<>>
    /\ \E k \in Bursts(pending, midline) :
          /\ rx' = rx \o SubSeq(pending, 1, k)
          /\ pending' = SubSeq(pending, k + 1, Len(pending))
          /\ midline' = (pending[k] # CR)
    /\ UNCHANGED <<session, device, pc, op, line, transaction, result, queried, poll>>

\* the first read_until without line 65: the long inter-byte timeout stays
_do_transaction_read_no_switch ==
    /\ pc = "read"
    /\ data_read' = read_until(rx)
    /\ rx' = Unread(rx)
    /\ pc' = "loop"
    /\ UNCHANGED <<session, device, pending, midline, op, line, cmd, response, clean,
                   result, queried, written, poll>>

\* lines 64-65: the first read_until, then the short inter-byte timeout
_do_transaction_read ==
    /\ pc = "read"
    /\ data_read' = read_until(rx)
    /\ rx' = Unread(rx)
    /\ inter_byte_timeout' = ShortInterByte
    /\ pc' = "loop"
    /\ UNCHANGED <<sp, timeout, _model, _version, c_factor, device, pending, midline,
                   op, line, cmd, response, clean, result, queried,
                   written, poll>>

\* the exception e leaves _do_transaction and every caller up to the
\* public call
Propagate(e) ==
    /\ pc' = "idle"
    /\ result' = e
    /\ UNCHANGED <<session, device, wire, op, line, transaction, queried, poll>>

\* lines 66-71, one turn of the loop on a non-empty data_read
_do_transaction_loop ==
    /\ pc = "loop"
    /\ data_read # <<>>
    /\ IF Incomplete(data_read)
       THEN Propagate(Raise("incomplete response line", response, PyStr(data_read)))
       ELSE IF ~IsAscii(rstrip(data_read))
       THEN Propagate(Raise("UnicodeDecodeError", <<>>, PyStr(data_read)))
       ELSE /\ response' = Append(response, rstrip(data_read))
            /\ data_read' = read_until(rx)
            /\ rx' = Unread(rx)
            /\ UNCHANGED <<session, device, pending, midline, pc, op, line, cmd, clean,
                           result, queried, written, poll>>

\* lines 72-78 once data_read is empty, and the callers' code after the
\* transaction, up to the next transaction or the end of the public call
_do_transaction_return ==
    /\ pc = "loop"
    /\ data_read = <<>>
    /\ LET r == ValidateResponse(response)
       IN CASE line \in ModelSites ->
                 IF r.kind = "raise"
                 THEN Propagate(r)
                 ELSE /\ _model' = r.val
                      /\ queriedModel' = TRUE
                      /\ Then(r.val)
                      /\ UNCHANGED <<sp, timeout, inter_byte_timeout, _version, device,
                                     wire, op, transaction, queriedVersion,
                                     poll>>
            [] line \in VersionSites ->
                 IF r.kind = "raise"
                 THEN Propagate(r)
                 ELSE /\ _version' = r.val
                      /\ queriedVersion' = TRUE
                      /\ Then(r.val)
                      /\ UNCHANGED <<sp, timeout, inter_byte_timeout, _model, device,
                                     wire, op, transaction, queriedModel,
                                     poll>>
            [] line \in WatchSites ->
                 LET v == MethodOutcome(WatchMethod(line), r, c_factor)
                 IN IF v.kind = "raise"
                    THEN Propagate(v)
                    ELSE /\ watched' = Bound(line, v.val)
                         /\ tick_reads' = tick_reads \cup {cmd.verb}
                         /\ line' = After(line)
                         /\ IF line = "51"
                            THEN /\ pc' = "print"
                                 /\ UNCHANGED cmd
                            ELSE /\ pc' = "write"
                                 /\ cmd' = [verb |-> WatchVerb(After(line)),
                                            extras |-> <<>>]
                         /\ UNCHANGED <<session, device, wire, op, response, data_read,
                                        clean, written, result, queried, stdout>>
            [] OTHER ->
                 /\ pc' = "idle"
                 /\ result' = MethodOutcome(op.name, r, c_factor)
                 /\ timeout' = TimeoutAfter(op.name, r, timeout)
                 /\ UNCHANGED <<sp, inter_byte_timeout, _model, _version, c_factor,
                                device, wire, op, line, transaction, queried,
                                poll>>

(* ------------------------------------------------------------------ *)
(* The public methods, up to the write of their command                *)
(* ------------------------------------------------------------------ *)

Unchanging == UNCHANGED <<session, device, wire, queried, poll>>

get_model ==
    /\ Callable
    /\ Invoke(Call("get_model", <<>>, FALSE), "GMOD", <<>>)
    /\ Unchanging

get_version ==
    /\ Callable
    /\ Invoke(Call("get_version", <<>>, FALSE), "GVER", <<>>)
    /\ Unchanging

get_error_state ==
    /\ Callable
    /\ Invoke(Call("get_error_state", <<>>, FALSE), "GERR", <<>>)
    /\ Unchanging

get_maximum_voltage_and_current ==
    /\ Callable
    /\ Invoke(Call("get_maximum_voltage_and_current", <<>>, FALSE), "GMAX", <<>>)
    /\ Unchanging

set_target_voltage ==
    /\ Callable
    /\ \E voltage \in Volts :
          Invoke(Call("set_target_voltage", <<voltage>>, FALSE),
                 "VOLT", _fp_3string(voltage, 10))
    /\ Unchanging

set_target_current ==
    /\ Callable
    /\ \E current \in Amps :
          LET call == Call("set_target_current", <<current>>, FALSE)
          IN IF c_factor = 0
             THEN Finish(call, NoFactor)
             ELSE Invoke(call, "CURR", _fp_3string(current, c_factor))
    /\ Unchanging

get_target_voltage_and_current ==
    /\ Callable
    /\ Invoke(Call("get_target_voltage_and_current", <<>>, FALSE), "GETS", <<>>)
    /\ Unchanging

get_display_voltage_current_and_mode ==
    /\ Callable
    /\ Invoke(Call("get_display_voltage_current_and_mode", <<>>, FALSE), "GETD", <<>>)
    /\ Unchanging

set_target_voltage_current_and_output_enabled ==
    /\ Callable
    /\ \E voltage \in Volts, current \in Amps, enabled \in BOOLEAN :
          LET call == Call("set_target_voltage_current_and_output_enabled",
                           <<voltage, current>>, enabled)
          IN IF c_factor = 0
             THEN Finish(call, NoFactor)
             ELSE Invoke(call, "SEVC",
                         _fp_3string(voltage, 10) \o _fp_3string(current, c_factor)
                           \o SuppressFlag(enabled))
    /\ Unchanging

\* line 143, then the write of GETM
get_preset_memories ==
    /\ Callable
    /\ Invoke(Call("get_preset_memories", <<>>, FALSE), "GETM", <<>>)
    /\ timeout' = PresetTimeout
    /\ UNCHANGED <<sp, inter_byte_timeout, _model, _version, c_factor, device, wire,
                   queried, poll>>

\* line 150, then the arguments and the write of PROM
set_preset_memories ==
    /\ Callable
    /\ \E v0 \in Volts, c0 \in Amps :
          LET call == Call("set_preset_memories", <<v0, c0, v0, c0, v0, c0>>, FALSE)
          IN IF c_factor = 0
             THEN Finish(call, NoFactor)
             ELSE Invoke(call, "PROM",
                         _fp_3string(v0, 10) \o _fp_3string(c0, c_factor)
                           \o _fp_3string(v0, 10) \o _fp_3string(c0, c_factor)
                           \o _fp_3string(v0, 10) \o _fp_3string(c0, c_factor))
    /\ timeout' = PresetTimeout
    /\ UNCHANGED <<sp, inter_byte_timeout, _model, _version, c_factor, device, wire,
                   queried, poll>>

run_preset_memory ==
    /\ Callable
    /\ \E memory \in Memories :
          Invoke(Call("run_preset_memory", <<memory>>, FALSE), "RUNM", str(memory))
    /\ Unchanging

set_session_state ==
    /\ Callable
    /\ \E session_state \in BOOLEAN :
          Invoke(Call("set_session_state", <<>>, session_state),
                 IF session_state THEN "SESS" ELSE "ENDS", <<>>)
    /\ Unchanging

get_output_power_enabled ==
    /\ Callable
    /\ Invoke(Call("get_output_power_enabled", <<>>, FALSE), "GOUT", <<>>)
    /\ Unchanging

set_output_power_enabled ==
    /\ Callable
    /\ \E enabled \in BOOLEAN :
          Invoke(Call("set_output_power_enabled", <<>>, enabled),
                 "SOUT", SuppressFlag(enabled))
    /\ Unchanging

get_over_voltage_limit ==
    /\ Callable
    /\ Invoke(Call("get_over_voltage_limit", <<>>, FALSE), "GOVP", <<>>)
    /\ Unchanging

set_over_voltage_limit ==
    /\ Callable
    /\ \E voltage \in Volts :
          Invoke(Call("set_over_voltage_limit", <<voltage>>, FALSE),
                 "SOVP", _fp_3string(voltage, 10))
    /\ Unchanging

get_over_current_limit ==
    /\ Callable
    /\ Invoke(Call("get_over_current_limit", <<>>, FALSE), "GOCP", <<>>)
    /\ Unchanging

set_over_current_limit ==
    /\ Callable
    /\ \E current \in Amps :
          LET call == Call("set_over_current_limit", <<current>>, FALSE)
          IN IF c_factor = 0
             THEN Finish(call, NoFactor)
             ELSE Invoke(call, "SOCP", _fp_3string(current, c_factor))
    /\ Unchanging

(* ------------------------------------------------------------------ *)
(* Specification                                                       *)
(* ------------------------------------------------------------------ *)

Next ==
    \/ connect
    \/ disconnect
    \/ call_model
    \/ call_version
    \/ model
    \/ version
    \/ get_model
    \/ get_version
    \/ get_error_state
    \/ get_maximum_voltage_and_current
    \/ set_target_voltage
    \/ set_target_current
    \/ get_target_voltage_and_current
    \/ get_display_voltage_current_and_mode
    \/ set_target_voltage_current_and_output_enabled
    \/ get_preset_memories
    \/ set_preset_memories
    \/ run_preset_memory
    \/ set_session_state
    \/ get_output_power_enabled
    \/ set_output_power_enabled
    \/ get_over_voltage_limit
    \/ set_over_voltage_limit
    \/ get_over_current_limit
    \/ set_over_current_limit
    \/ _do_transaction_write
    \/ Deliver
    \/ _do_transaction_read
    \/ _do_transaction_loop
    \/ _do_transaction_return

Spec == Init /\ [][Next]_vars

(* ------------------------------------------------------------------ *)
(* The fixed-point codec on its own: _fp_3string, and the decoding of  *)
(* the field it made by the matching get method                        *)
(* ------------------------------------------------------------------ *)

\* the scales in use: 10 for voltages, c_factor (100) for currents
Scales == {10, 100}

\* the values a 3-digit field represents at a scale: 0.0 .. 99.9 in steps
\* of 0.1, 0.00 .. 9.99 in steps of 0.01
Representable(scale) == {PyFloat(n, scale) : n \in 0..999}

\* values a caller can pass besides: Python ints, a value too large for
\* the field, negative values
OtherNums(scale) ==
    {PyInt(n) : n \in {-1, 0, 1, 9, 10, 99, 100}}
        \cup {PyFloat(n, scale) : n \in {-999, -5, -1, 1000, 1001}}

\* a call _fp_3string(num, scale) is about to be made
CodecInit ==
    /\ sp = "None"
    /\ timeout = 0
    /\ inter_byte_timeout = 0
    /\ _model = PyNone
    /\ _version = PyNone
    /\ c_factor = 0
    /\ dev = NoDevice
    /\ flag = <<"0">>
    /\ pending = <<>>
    /\ rx = <<>>
    /\ midline = FALSE
    /\ pc = "idle"
    /\ line = ""
    /\ cmd = NoCmd
    /\ response = <<>>
    /\ data_read = <<>>
    /\ result = NoOutcome
    /\ queriedModel = FALSE
    /\ queriedVersion = FALSE
    /\ clean = TRUE
    /\ written = 0
    /\ watched = NoLocals
    /\ stdout = <<>>
    /\ tick_reads = {}
    /\ \E scale \in Scales : \E num \in Representable(scale) \cup OtherNums(scale) :
          op = Call("_fp_3string", <<num, PyInt(scale)>>, FALSE)

\* the field a set method puts on the line: _fp_3string(num, scale)
encode ==
    /\ pc = "idle"
    /\ op.name = "_fp_3string"
    /\ cmd' = [verb |-> "", extras |-> _fp_3string(op.nums[1], op.nums[2].n)]
    /\ pc' = "encoded"
    /\ UNCHANGED <<session, device, wire, op, line, response, data_read, clean,
                   result, queried, written, poll>>

\* the device echoes the field as the payload of the matching get
\* command, and the get method decodes it: get_over_voltage_limit at
\* scale 10, get_over_current_limit at the scale self.c_factor
decode ==
    /\ pc = "encoded"
    /\ LET echoed == Return(PyStr(cmd.extras))
           scale == op.nums[2].n
       IN result' = IF scale = 10
                    THEN get_over_voltage_limit_value(echoed)
                    ELSE get_over_current_limit_value(echoed, scale)
    /\ pc' = "decoded"
    /\ UNCHANGED <<session, device, wire, op, line, transaction, queried, poll>>

CodecNext == encode \/ decode

CodecSpec == CodecInit /\ [][CodecNext]_vars

(* ------------------------------------------------------------------ *)
(* A session that is connected and then watched                        *)
(* ------------------------------------------------------------------ *)

WatchNext ==
    \/ connect
    \/ disconnect
    \/ model
    \/ version
    \/ watch
    \/ watch_print
    \/ watch_sleep
    \/ KeyboardInterrupt
    \/ _do_transaction_write
    \/ Deliver
    \/ _do_transaction_read
    \/ _do_transaction_loop
    \/ _do_transaction_return

WatchSpec == Init /\ [][WatchNext]_vars

(* ------------------------------------------------------------------ *)
(* A caller who calls again right after a failed call, while the reply *)
(* to the failed command may still arrive                              *)
(* ------------------------------------------------------------------ *)

CallableEarly ==
    /\ pc = "idle"
    /\ sp = "open"
    /\ Len(rx) + Len(pending) <= LateBacklog

get_output_power_enabled_early ==
    /\ CallableEarly
    /\ Invoke(Call("get_output_power_enabled", <<>>, FALSE), "GOUT", <<>>)
    /\ Unchanging

get_model_early ==
    /\ CallableEarly
    /\ Invoke(Call("get_model", <<>>, FALSE), "GMOD", <<>>)
    /\ Unchanging

LateNext ==
    \/ connect
    \/ model
    \/ version
    \/ get_output_power_enabled_early
    \/ get_model_early
    \/ _do_transaction_write
    \/ Deliver
    \/ _do_transaction_read
    \/ _do_transaction_loop
    \/ _do_transaction_return

LateSpec == Init /\ [][LateNext]_vars

(* ------------------------------------------------------------------ *)
(* Properties                                                          *)
(* ------------------------------------------------------------------ *)

\* a collected line set that passes validation: 1 or 2 lines, the last OK
WellFormed(lines) == Len(lines) \in {1, 2} /\ lines[Len(lines)] = OK

\* the transaction of the running or last public call has collected its
\* lines to the end (an empty read) and has been validated
Collected == cmd # NoCmd /\ data_read = <<>> /\ pc \in {"idle", "call"}

\* the last public call was a method of one transaction, and that
\* transaction collected its lines to the end
MethodCollected == pc = "idle" /\ line = "" /\ cmd # NoCmd /\ data_read = <<>>

\* C1: outside a preset transaction the base read timeout of the open
\* transport is the connect-time value: every exit path of
\* get_preset_memories / set_preset_memories, failures included, restores it.
C1_TimeoutRestoredOnEveryExit ==
    (pc = "idle" /\ sp = "open") => timeout = BaseTimeout

\* C2: a collected line set that is not 1 or 2 lines (zero lines included),
\* or whose last line is not OK, makes the transaction fail with the
\* 'bad response' error naming these lines; no value is returned.
C2_BadResponseNeverAValue ==
    (Collected /\ ~WellFormed(response)) =>
        /\ pc = "idle"
        /\ result = Raise("bad response", response, PyNone)

C2_ZeroLinesRejected ==
    /\ pc = "idle"
    /\ cmd # NoCmd
    /\ data_read = <<>>
    /\ response = <<>>
    /\ result = Raise("bad response", <<>>, PyNone)

\* a non-empty read without the terminator is waiting to be examined
IncompleteRead == pc = "loop" /\ data_read # <<>> /\ data_read[Len(data_read)] # CR

\* C3: once a non-empty read lacks the terminating CR, the transaction does
\* nothing but fail with the 'incomplete response line' error naming exactly
\* the lines collected before it: no further read, no value, no retry
\* (meanwhile more bytes may arrive on the line).
C3_IncompleteLineFailsAtOnce ==
    [][IncompleteRead =>
          \/ /\ pc' = "idle"
             /\ result' = Raise("incomplete response line", response, PyStr(data_read))
             /\ UNCHANGED <<rx, response, data_read, session>>
          \/ /\ UNCHANGED <<pc, response, data_read, result, session>>
             /\ Len(rx') > Len(rx)]_vars

C3_IncompleteAfterOneLine ==
    /\ pc = "idle"
    /\ Len(response) = 1
    /\ data_read # <<>>
    /\ result = Raise("incomplete response line", response, PyStr(data_read))

\* C4: model() and version() issue at most one transaction each per
\* session: model() starts no GMOD transaction once a GMOD transaction of
\* it has returned, version() no GVER transaction once one of it has.
C4_AtMostOneIdentityQuery ==
    /\ (pc = "write" /\ line \in ModelSites) => ~queriedModel
    /\ (pc = "write" /\ line \in VersionSites) => ~queriedVersion

\* C5: on an open session model() and version() return what the device
\* now connected reports, also after a reconnect.
C5_IdentityOfConnectedDevice ==
    (pc = "idle" /\ sp = "open" /\ result.kind = "return" /\ result.val.t = "str") =>
        /\ op.name = "model" => result.val.s = dev.model
        /\ op.name = "version" => result.val.s = dev.version

\* C6: connect() returns only if the device now attached reports a model
\* of the allow-list and the version REV3.3, and then the scaling factor
\* is 100.
C6_ConnectValidatesAttachedDevice ==
    (pc = "idle" /\ op.name = "connect" /\ result.kind = "return") =>
        /\ dev.model \in {HCS_3102, HCS_3014, HCS_3204}
        /\ dev.version = REV3_3
        /\ c_factor = 100

\* what the claim says a validated transaction returns
ExpectedReturn(lines) ==
    IF lines = <<OK>> THEN Return(PyTrue) ELSE Return(PyStr(lines[1]))

\* C7: a transaction whose lines pass validation returns the no-data result
\* exactly when the reply is the single line OK, and else its first line as
\* data (an empty line and the text OK included); every caller goes by
\* that result: get_model / get_version hand it on, model() stores it, the
\* other methods decode it.
C7_NoDataOnlyForSingleOK ==
    /\ (MethodCollected /\ WellFormed(response)) =>
          result = MethodOutcome(op.name, ExpectedReturn(response), c_factor)
    /\ (MethodCollected /\ WellFormed(response) /\ op.name \in {"get_model", "get_version"}) =>
          /\ result.kind = "return"
          /\ result.val = PyTrue <=> response = <<OK>>
          /\ result.val # PyTrue => result.val = PyStr(response[1])
    /\ (Collected /\ line \in ModelSites \cup VersionSites /\ cmd.verb = "GMOD"
          /\ WellFormed(response)) =>
          _model = ExpectedReturn(response).val

C7_EmptyFirstLineIsData ==
    /\ MethodCollected
    /\ op.name = "get_model"
    /\ response = << <<>>, OK >>
    /\ result = Return(PyStr(<<>>))

\* C8: a set method succeeds if and only if the lines its transaction
\* collected are the single line OK; a well-formed two-line reply makes it
\* fail with the 'unexpected data' error.
C8_SetSucceedsOnlyOnSingleOK ==
    (pc = "idle" /\ op.name \in SetMethods) =>
        /\ result.kind = "return" <=>
              (cmd # NoCmd /\ data_read = <<>> /\ response = <<OK>>)
        /\ cmd # NoCmd => cmd.verb \in SetVerbs
        /\ (cmd # NoCmd /\ data_read = <<>> /\ WellFormed(response) /\ Len(response) = 2) =>
              result = Raise("unexpected data", <<>>, PyStr(response[1]))

C8_DataReplyFailsSet ==
    /\ pc = "idle"
    /\ op.name \in SetMethods
    /\ response = <<OK, OK>>
    /\ data_read = <<>>
    /\ result = Raise("unexpected data", <<>>, PyStr(OK))

\* the payloads the get methods decode: n decimal digits (for GETD a last
\* digit 0 or 1), or a key of the status table / flag table
Decodable(name, payload) ==
    CASE name \in {"get_maximum_voltage_and_current", "get_target_voltage_and_current"} ->
            Len(payload) = 6 /\ AllDigits(payload)
      [] name = "get_display_voltage_current_and_mode" ->
            Len(payload) = 9 /\ AllDigits(payload) /\ payload[9] \in {"0", "1"}
      [] name = "get_preset_memories" -> Len(payload) = 18 /\ AllDigits(payload)
      [] name \in {"get_over_voltage_limit", "get_over_current_limit"} ->
            Len(payload) = 3 /\ AllDigits(payload)
      [] name = "get_error_state" ->
            payload \in {<<"0", "0", "0">>, <<"0", "0", "1">>, <<"0", "0", "2">>,
                         <<"0", "0", "3">>}
      [] name = "get_output_power_enabled" -> payload \in {<<"0">>, <<"1">>}

\* C9: for a pattern-decoded or enumerated-decoded get method, a validated
\* reply that is not a matching data payload (the no-data reply OK alone
\* included) fails with the 'unexpected response' error, and with no other.
C9_NonMatchIsUnexpectedResponse ==
    (/\ MethodCollected
     /\ op.name \in RegexGetMethods \cup DictGetMethods
     /\ WellFormed(response)
     /\ ~(Len(response) = 2 /\ Decodable(op.name, response[1]))) =>
        /\ result.kind = "raise"
        /\ result.err = "unexpected response"

\* C10: the suppress flag on the wire is 1 exactly when enabled is false,
\* the device holds the flag of the last SOUT / SEVC written, so after a
\* successful set_output_power_enabled(e) or
\* set_target_voltage_current_and_output_enabled(v, c, e) it holds the
\* flag of e; and get_output_power_enabled(), given the device's own reply
\* on a quiet line, returns True for a held flag 0 and False for 1: the
\* value of e that was set.
C10_OutputEnabledRoundTrip ==
    /\ (op.name \in OutputSetters /\ cmd # NoCmd /\ pc \in {"read", "loop", "idle"}) =>
          /\ cmd.extras[Len(cmd.extras)] = (IF op.enabled THEN "0" ELSE "1")
          /\ flag = (IF op.enabled THEN <<"0">> ELSE <<"1">>)
    /\ (MethodCollected /\ op.name = "get_output_power_enabled" /\ clean
          /\ result.kind = "return") =>
          /\ response = <<flag, OK>>
          /\ result.val = (IF flag = <<"0">> THEN PyTrue ELSE PyFalse)

C10_DisabledStoredAsOne ==
    /\ pc = "idle"
    /\ op.name \in OutputSetters
    /\ ~op.enabled
    /\ result = Return(PyNone)
    /\ flag = <<"1">>

\* C11: every voltage or current field that _fp_3string makes for a set
\* command is exactly 3 decimal digits, whatever number the caller passes
\* (also when value times scale is 1000 or more, or negative).
C11_FieldIsThreeDigits ==
    pc \in {"encoded", "decoded"} => (Len(cmd.extras) = 3 /\ AllDigits(cmd.extras))

\* C12: for every value v representable in a 3-digit field at scale 10 or
\* 100, decoding the field _fp_3string(v, scale) (parse as integer, divide
\* by the scale) gives v back.
C12_CodecRoundTrip ==
    (pc = "decoded" /\ op.nums[1] \in Representable(op.nums[2].n)) =>
        result = Return(PyNums(<< <<op.nums[1].n, op.nums[2].n>> >>))

\* C13: on a session that has its scaling factor, get_maximum_voltage_and_current
\* (GMAX) and get_target_voltage_and_current (GETS) turn every payload of
\* exactly 6 decimal digits into (first 3 digits / 10, last 3 digits /
\* c_factor), and fail on every other payload with the 'unexpected
\* response' error, returning no value.
C13_SixDigitsDecode ==
    (/\ MethodCollected
     /\ op.name \in {"get_maximum_voltage_and_current", "get_target_voltage_and_current"}
     /\ WellFormed(response)
     /\ Len(response) = 2
     /\ c_factor # 0) =>
        LET payload == response[1]
        IN IF Len(payload) = 6 /\ AllDigits(payload)
           THEN result = Return(PyNums(<< <<int(SubSeq(payload, 1, 3)), 10>>,
                                          <<int(SubSeq(payload, 4, 6)), c_factor>> >>))
           ELSE result = Raise("unexpected response", <<>>, PyStr(payload))

C13_MaximumDecoded ==
    /\ pc = "idle"
    /\ op.name = "get_maximum_voltage_and_current"
    /\ response = << <<"1", "2", "0", "2", "4", "0">>, OK >>
    /\ c_factor = 100
    /\ result = Return(PyNums(<< <<120, 10>>, <<240, 100>> >>))

\* C14 (as claimed): every tick of watch reads the maximum (GMAX), the
\* target (GETS) and the display values (GETD) before it prints its line
\* (a read made before the first tick counts for the first line).
C14_EveryTickReadsAll ==
    pc = "print" => {"GMAX", "GETS", "GETD"} \subseteq tick_reads

\* C14 (amended): every tick of watch reads the target (GETS) and the
\* display values (GETD) before it prints its line, and the line reports
\* them; the maximum values are read once (GMAX), before the first tick,
\* and every printed line reports that one reading.
C14_TickReadsTargetAndDisplay ==
    /\ pc = "print" =>
          /\ tick_reads = {"GETS", "GETD"} \cup (IF stdout = <<>> THEN {"GMAX"} ELSE {})
          /\ watched.max.t = "nums"
          /\ watched.target.t = "nums"
          /\ watched.display.t = "display"
    /\ \A i \in 1..Len(stdout) :
          stdout[i] # BlankLine =>
              /\ stdout[i].max = stdout[1].max
              /\ stdout[i].max.t = "nums"
              /\ stdout[i].target.t = "nums"
              /\ stdout[i].display.t = "display"
    /\ (pc = "sleep" /\ op.name = "watch") => stdout[Len(stdout)] = watched

C14_SecondLinePrinted ==
    /\ op.name = "watch"
    /\ pc = "sleep"
    /\ Len(stdout) = 2
    /\ stdout[2] = watched
    /\ tick_reads = {}

\* C15: watch stops on the interrupt signal only between ticks: a
\* transaction whose command has been written completes or fails by its
\* own validation first, so when watch has stopped on the signal no reply
\* is left unread, partly or wholly, on the transport.
C15_WatchStopsBetweenTransactions ==
    (/\ pc = "idle"
     /\ op.name = "watch"
     /\ (result.kind = "return" \/ result.err = "KeyboardInterrupt")) =>
        (rx = <<>> /\ pending = <<>>)

\* the public methods that run one transaction
TransactionMethods ==
    SetMethods \cup RegexGetMethods \cup DictGetMethods \cup {"get_model", "get_version"}

\* C16: no retries: a public get or set method writes one command line per
\* call and connect writes at most two (one GMOD, one GVER), so no call
\* writes a command again, whether the earlier one failed or not.
C16_OneCommandPerCall ==
    /\ op.name \in TransactionMethods => written <= 1
    /\ (op.name \in TransactionMethods /\ pc = "idle" /\ cmd # NoCmd) => written = 1
    /\ op.name = "connect" => written <= 2

\* C17: while the first read of a transaction is under way the inter-byte
\* timeout of the open transport is the long value (0.1 s); from the end
\* of that read on - during every later read, when the lines are
\* validated, and when the transaction has returned or failed with a
\* protocol error - it is the short value (0.002 s).
C17_TwoPhaseTimeout ==
    sp = "open" =>
        inter_byte_timeout = IF pc = "read" THEN LongInterByte ELSE ShortInterByte

C17_FailedAfterThreeReads ==
    /\ pc = "idle"
    /\ sp = "open"
    /\ Len(response) = 3
    /\ result = Raise("bad response", response, PyNone)
    /\ inter_byte_timeout = ShortInterByte

\* C19: the session holds an open transport only while it is validly
\* connected: when connect has failed (unsupported model or version, or a
\* failed identity transaction) the transport it opened is closed and
\* self.sp is empty.
C19_FailedConnectLeavesNoTransport ==
    (pc = "idle" /\ op.name = "connect" /\ result.kind = "raise") => sp = "None"

\* the lines of a reply as the driver collects them
RECURSIVE SplitLines(_)
SplitLines(b) ==
    IF b = <<>> THEN <<>> ELSE <<rstrip(read_until(b))>> \o SplitLines(Unread(b))

\* C18: a value a method returns is built from the device's reply to the
\* command this call wrote: the lines its transaction collected are the
\* lines of a reply of the device to that command, never bytes left over
\* from an earlier command whose reply arrived late.
C18_ValueFromOwnReply ==
    (pc = "idle" /\ op.name \in TransactionMethods /\ cmd # NoCmd
       /\ result.kind = "return") =>
        \E reply \in Replies(cmd.verb, dev, flag) : SplitLines(reply) = response

====
